---- MODULE Spec2Model ----
(***************************************************************************)
(* A model of main.py of kermit-bot: credential loading at import time,    *)
(* MyBot.setup_hook with its background retry task, the presence rotation  *)
(* tasks started by on_ready, the slash-command error handler and the      *)
(* help command.                                                           *)
(*                                                                         *)
(* The subsystems share no state, so each is explored by a specification   *)
(* of its own over the same variables:                                     *)
(*   Spec          start-up: token check, setup_hook, retry_failed_cogs    *)
(*   FairSpec      Spec with the event loop's fairness                     *)
(*   PresenceSpec  on_ready and the rotate_activity tasks                  *)
(*   ErrorSpec     on_app_command_error                                    *)
(*   HelpSpec      help_command                                            *)
(*   ShutdownSpec  close() beside the retry task, from setup_hook's end    *)
(*                                                                         *)
(* Python's None is the empty set and a value v is {v} (an Optional).      *)
(* Python's 0-based list index i is the TLA+ sequence index i + 1.         *)
(***************************************************************************)
EXTENDS Integers, Sequences, FiniteSets, TLC

VARIABLES
    environ,            \* os.environ's DISCORD_TOKEN after load_dotenv (Optional)
    DISCORD_TOKEN,      \* the module global of line 41 (Optional)
    pc,                 \* position of the main line of the program
    bot_created,        \* line 124 has run: bot = MyBot()
    start_arg,          \* the argument bot.start was called with (Optional)
    connect_attempted,  \* bot.start has gone on from login to connect
    listing,            \* what os.listdir('./cogs') returns
    fi,                 \* setup_hook: position of the for loop in listing
    _loaded_cogs,       \* MyBot._loaded_cogs
    failed_cogs,        \* setup_hook's local list, captured by the retry task
    load_log,           \* history: every load_extension call, in order
    retry_pc,           \* retry_failed_cogs: "none", "sleep", "loop", "done"
    retry_i,            \* retry_failed_cogs: position of its for loop
    retry_started,      \* when its asyncio.sleep(5) began
    now,                \* the event loop's clock, in seconds
    tasks,              \* the rotate_activity tasks, in creation order
    presence_log,       \* history: every change_presence call, in order
    err_call,           \* the last on_app_command_error invocation and its effect
    tree,               \* bot.tree.get_commands(): the registered commands
    help_call,          \* the last help_command invocation and its effect
    session,            \* MyBot.session: "none", "open" or "closed"
    close_pc,           \* MyBot.close: "idle", "session", "unload", "done"
    unload_list,        \* close: list(self._loaded_cogs) of line 113
    close_log,          \* history: the calls close() has made, in order
    loads_before_unload \* history: Len(load_log) when the unload pass began (Optional)

bootVars == <<environ, DISCORD_TOKEN, pc, bot_created, start_arg, connect_attempted>>
loadVars == <<listing, fi, _loaded_cogs, failed_cogs, load_log,
              retry_pc, retry_i, retry_started>>
presenceVars == <<tasks, presence_log>>
errorVars == <<err_call>>
helpVars == <<tree, help_call>>
closeVars == <<session, close_pc, unload_list, close_log, loads_before_unload>>
vars == <<bootVars, loadVars, now, presenceVars, errorVars, helpVars, closeVars>>

(***************************************************************************)
(* Bounds of the model.                                                    *)
(***************************************************************************)
MaxFiles == 3       \* entries of ./cogs
MaxTime == 2        \* seconds of start-up explored (more while a sleep is pending)
MaxReady == 2       \* on_ready events
MaxCalls == 4       \* change_presence calls recorded
MaxPeriods == 3     \* rotation periods of clock explored
MaxRetryTenths == 30 \* largest CommandOnCooldown.retry_after, in tenths of a second
MaxCommands == 2    \* top-level commands on the tree
MaxChildren == 2    \* commands of a group

(***************************************************************************)
(* Small helpers for Python values.                                        *)
(***************************************************************************)
None == {}
Some(v) == {v}
Truthy(opt) == opt # None /\ opt # Some("")

Range(s) == {s[k] : k \in 1..Len(s)}

\* str.endswith
EndsWith(s, suffix) ==
    /\ Len(s) >= Len(suffix)
    /\ SubSeq(s, Len(s) - Len(suffix) + 1, Len(s)) = suffix

\* sequences over S without repetition, of length at most n
RECURSIVE SeqsNoDup(_, _)
SeqsNoDup(S, n) ==
    IF n = 0 THEN {<<>>}
    ELSE LET shorter == SeqsNoDup(S, n - 1)
         IN  shorter \cup
             {Append(s, x) : <<s, x>> \in
                 {p \in shorter \X S : Len(p[1]) = n - 1 /\ p[2] \notin Range(p[1])}}

(***************************************************************************)
(* Start-up: lines 37-44, 124 and main().                                  *)
(***************************************************************************)
TokenValues == {None, Some(""), Some("tok"), Some(" ")}
FileNames == {"a.py", "b.py", "__init__.py", "notes.txt", ".py"}
RetryDelay == 5

\* line 64
Eligible(filename) == EndsWith(filename, ".py") /\ filename # "__init__.py"

\* line 65: f'cogs.{filename[:-3]}'
ExtensionOf(filename) == "cogs." \o SubSeq(filename, 1, Len(filename) - 3)

BootInit ==
    /\ environ \in TokenValues
    /\ DISCORD_TOKEN = None
    /\ pc = "import"
    /\ bot_created = FALSE
    /\ start_arg = None
    /\ connect_attempted = FALSE
    /\ listing \in SeqsNoDup(FileNames, MaxFiles)
    /\ fi = 1
    /\ _loaded_cogs = {}
    /\ failed_cogs = <<>>
    /\ load_log = <<>>
    /\ retry_pc = "none"
    /\ retry_i = 1
    /\ retry_started = 0
    /\ now = 0

PresenceIdle == tasks = <<>> /\ presence_log = <<>>
ErrorIdle == err_call = None
HelpIdle == tree = <<>> /\ help_call = None

\* line 57: no session; close() has not been called
CloseIdle ==
    /\ session = "none"
    /\ close_pc = "idle"
    /\ unload_list = {}
    /\ close_log = <<>>
    /\ loads_before_unload = None

Init == BootInit /\ PresenceIdle /\ ErrorIdle /\ HelpIdle /\ CloseIdle

\* a check written "is None": the empty string passes
TokenCheckOnlyNone(token) == token = None

\* line 42: if not DISCORD_TOKEN
TokenCheckRaises(token) == ~Truthy(token)

ModuleImport ==
    /\ pc = "import"
    /\ DISCORD_TOKEN' = environ
    /\ pc' = IF TokenCheckRaises(environ) THEN "raised" ELSE "main"
    /\ bot_created' = ~TokenCheckRaises(environ)
    /\ UNCHANGED <<environ, start_arg, connect_attempted, loadVars, now,
                   presenceVars, errorVars, helpVars, closeVars>>

\* line 253: bot.start(DISCORD_TOKEN); login runs setup_hook before connect
StartArgument(token) == token

Main ==
    /\ pc = "main"
    /\ start_arg' = StartArgument(DISCORD_TOKEN)
    /\ pc' = "setup_hook"
    /\ UNCHANGED <<environ, DISCORD_TOKEN, bot_created, connect_attempted,
                   loadVars, now, presenceVars, errorVars, helpVars, closeVars>>

\* one load_extension call and what the caller does with its outcome
LoadCall(extension, by, ok) ==
    [extension |-> extension, by |-> by, ok |-> ok,
     already |-> extension \in _loaded_cogs]

\* a setup_hook without the try: the exception leaves the loop and setup_hook
SetupAfterFailurePropagates(extension) ==
    /\ pc' = "setup_raised"
    /\ UNCHANGED <<_loaded_cogs, failed_cogs, fi>>

\* a setup_hook that records the extension as loaded whatever the outcome
SetupAfterFailureAdds(extension) ==
    /\ failed_cogs' = Append(failed_cogs, <<extension, "str(e)">>)
    /\ _loaded_cogs' = _loaded_cogs \cup {extension}
    /\ fi' = fi + 1
    /\ UNCHANGED pc

\* lines 70-72: the except clause of the initial pass; the loop goes on
SetupAfterFailure(extension) ==
    /\ failed_cogs' = Append(failed_cogs, <<extension, "str(e)">>)
    /\ fi' = fi + 1
    /\ UNCHANGED <<_loaded_cogs, pc>>

\* lines 63-72: one iteration of the for loop
SetupStep ==
    /\ pc = "setup_hook"
    /\ fi <= Len(listing)
    /\ LET filename == listing[fi]
           extension == ExtensionOf(filename)
       IN  IF Eligible(filename) /\ extension \notin _loaded_cogs
           THEN \E ok \in BOOLEAN :
                   /\ load_log' = Append(load_log, LoadCall(extension, "setup", ok))
                   /\ IF ok
                      THEN /\ _loaded_cogs' = _loaded_cogs \cup {extension}
                           /\ fi' = fi + 1
                           /\ UNCHANGED <<failed_cogs, pc>>
                      ELSE SetupAfterFailure(extension)
           ELSE /\ fi' = fi + 1
                /\ UNCHANGED <<load_log, _loaded_cogs, failed_cogs, pc>>
    /\ UNCHANGED <<environ, DISCORD_TOKEN, bot_created, start_arg,
                   connect_attempted, listing, retry_pc, retry_i, retry_started, now,
                   presenceVars, errorVars, helpVars, closeVars>>

\* line 74: is the retry task created?
RetryWanted(failed) == failed # <<>>

\* lines 74-86: the end of setup_hook
SetupFinish ==
    /\ pc = "setup_hook"
    /\ fi > Len(listing)
    /\ IF RetryWanted(failed_cogs)
       THEN retry_pc' = "sleep" /\ retry_started' = now
       ELSE UNCHANGED <<retry_pc, retry_started>>
    /\ pc' = "connect"
    /\ UNCHANGED <<environ, DISCORD_TOKEN, bot_created, start_arg,
                   connect_attempted, listing, fi, _loaded_cogs, failed_cogs, load_log, retry_i,
                   now, presenceVars, errorVars, helpVars, closeVars>>

\* bot.start: after login (and setup_hook) comes connect
Connect ==
    /\ pc = "connect"
    /\ connect_attempted' = TRUE
    /\ pc' = "running"
    /\ UNCHANGED <<environ, DISCORD_TOKEN, bot_created, start_arg, loadVars,
                   now, presenceVars, errorVars, helpVars, closeVars>>

\* line 77: asyncio.sleep(5) returns, never early
SleepOver(started) == now >= started + RetryDelay

RetryWake ==
    /\ retry_pc = "sleep"
    /\ SleepOver(retry_started)
    /\ retry_pc' = "loop"
    /\ retry_i' = 1
    /\ UNCHANGED <<bootVars, listing, fi, _loaded_cogs, failed_cogs, load_log,
                   retry_started, now, presenceVars, errorVars, helpVars, closeVars>>

\* a retry without the try: the first failure ends the task
RetryAfterFailureEndsTask ==
    /\ retry_pc' = "done"
    /\ UNCHANGED <<_loaded_cogs, retry_i>>

\* lines 83-84: the except clause of the retry; the loop goes on
RetryAfterFailure ==
    /\ retry_i' = retry_i + 1
    /\ UNCHANGED <<_loaded_cogs, retry_pc>>

\* lines 78-84: one iteration of the retry loop
RetryStep ==
    /\ retry_pc = "loop"
    /\ retry_i <= Len(failed_cogs)
    /\ LET extension == failed_cogs[retry_i][1]
       IN  \E ok \in BOOLEAN :
              /\ load_log' = Append(load_log, LoadCall(extension, "retry", ok))
              /\ IF ok
                 THEN /\ _loaded_cogs' = _loaded_cogs \cup {extension}
                      /\ retry_i' = retry_i + 1
                      /\ UNCHANGED retry_pc
                 ELSE RetryAfterFailure
    /\ UNCHANGED <<bootVars, listing, fi, failed_cogs, retry_started, now,
                   presenceVars, errorVars, helpVars, closeVars>>

\* the retry loop is exhausted: the task ends
RetryFinish ==
    /\ retry_pc = "loop"
    /\ retry_i > Len(failed_cogs)
    /\ retry_pc' = "done"
    /\ UNCHANGED <<bootVars, listing, fi, _loaded_cogs, failed_cogs, load_log,
                   retry_i, retry_started, now, presenceVars, errorVars, helpVars, closeVars>>

\* a second passes (the clock is explored up to MaxTime, and further while
\* the retry task's sleep is pending)
Tick ==
    /\ now < MaxTime \/ (retry_pc = "sleep" /\ ~SleepOver(retry_started))
    /\ now' = now + 1
    /\ UNCHANGED <<bootVars, loadVars, presenceVars, errorVars, helpVars, closeVars>>

Next ==
    \/ ModuleImport
    \/ Main
    \/ SetupStep
    \/ SetupFinish
    \/ Connect
    \/ RetryWake
    \/ RetryStep
    \/ RetryFinish
    \/ Tick

Spec == Init /\ [][Next]_vars

\* the interpreter runs the main line, the event loop runs every task that is
\* ready, and time passes
FairSpec ==
    /\ Spec
    /\ WF_vars(ModuleImport) /\ WF_vars(Main)
    /\ WF_vars(SetupStep) /\ WF_vars(SetupFinish) /\ WF_vars(Connect)
    /\ WF_vars(RetryWake) /\ WF_vars(RetryStep) /\ WF_vars(RetryFinish)
    /\ WF_vars(Tick)

(***************************************************************************)
(* Claims about start-up.                                                  *)
(***************************************************************************)
LoadCalls(extension, by) ==
    {k \in 1..Len(load_log) :
        load_log[k].extension = extension /\ load_log[k].by = by}

EligibleExtensions == {ExtensionOf(f) : f \in {g \in Range(listing) : Eligible(g)}}

SetupReturned == pc \in {"connect", "running"}

\* C1: failure isolation in setup_hook. Whatever loads raise, the initial pass
\* has called load_extension exactly once for every eligible file it has passed
\* and for no other name, it passes every file before setup_hook returns, and
\* no load exception leaves setup_hook.
C1_FailureIsolation ==
    /\ pc # "setup_raised"
    /\ \A k \in 1..Len(listing) :
          Cardinality(LoadCalls(ExtensionOf(listing[k]), "setup"))
              = IF Eligible(listing[k]) /\ k < fi THEN 1 ELSE 0
    /\ \A k \in 1..Len(load_log) :
          load_log[k].by = "setup" => load_log[k].extension \in EligibleExtensions
    /\ SetupReturned => fi = Len(listing) + 1

\* C1's case: setup_hook has returned after a load that raised was followed by
\* the load attempt of another extension.
C1_Witness ==
    /\ SetupReturned
    /\ \E j, k \in 1..Len(load_log) :
          /\ j < k
          /\ load_log[j].by = "setup" /\ ~load_log[j].ok
          /\ load_log[k].by = "setup"
          /\ load_log[k].extension # load_log[j].extension

FailedFirst(extension) ==
    \E k \in LoadCalls(extension, "setup") : ~load_log[k].ok

AllExtensions == {load_log[k].extension : k \in 1..Len(load_log)}

C2_Safety ==
    \* a retry happens only after the whole initial pass and the 5 seconds
    /\ (\E k \in 1..Len(load_log) : load_log[k].by = "retry") =>
          /\ SetupReturned
          /\ retry_pc \in {"loop", "done"}
          /\ now >= retry_started + 5
    /\ \A e \in AllExtensions :
          \* at most two attempts, and a retry only of a failed first load
          /\ Cardinality(LoadCalls(e, "setup")) <= 1
          /\ Cardinality(LoadCalls(e, "retry")) <= 1
          /\ ~FailedFirst(e) => LoadCalls(e, "retry") = {}
          \* once the task has ended every failed extension was retried
          /\ (retry_pc = "done" /\ FailedFirst(e)) =>
                Cardinality(LoadCalls(e, "retry")) = 1
    \* no failure, no task
    /\ (SetupReturned /\ ~\E e \in AllExtensions : FailedFirst(e)) =>
          retry_pc = "none"
    \* the task is created only by setup_hook's end
    /\ retry_pc # "none" => SetupReturned

C2_Settled == pc = "raised" \/ (pc = "running" /\ retry_pc \in {"none", "done"})

\* C2: retry exactly once. Every extension whose first load failed is loaded
\* once more by retry_failed_cogs, after the initial pass has finished and
\* after the 5-second sleep; one that loaded at first is never loaded again;
\* nothing is loaded a third time; no task exists when nothing failed; a
\* failing retry does not stop the retries after it; and with a fair event
\* loop the task does run to its end.
C2_RetryOnce == [](C2_Safety) /\ <>[](C2_Settled)

\* C2's case: the task has ended after two retries, the first of which failed.
C2_Witness ==
    /\ retry_pc = "done"
    /\ \E j, k \in 1..Len(load_log) :
          /\ j < k
          /\ load_log[j].by = "retry" /\ ~load_log[j].ok
          /\ load_log[k].by = "retry"

\* C3: an extension is in _loaded_cogs exactly when a load_extension call for
\* it has returned without raising (so a successful first or second attempt
\* puts it there in the same step), and load_extension is never called for an
\* extension that is in _loaded_cogs.
C3_LoadedCogs ==
    /\ _loaded_cogs = {load_log[k].extension :
                          k \in {j \in 1..Len(load_log) : load_log[j].ok}}
    /\ \A k \in 1..Len(load_log) : ~load_log[k].already

\* C3's case: one extension loaded at first, another failed and then loaded
\* in the retry, a third failed twice.
C3_Witness ==
    /\ retry_pc = "done"
    /\ \E e \in _loaded_cogs : LoadCalls(e, "retry") # {}
    /\ \E e \in _loaded_cogs : LoadCalls(e, "retry") = {}
    /\ \E e \in AllExtensions : e \notin _loaded_cogs

\* C4: with DISCORD_TOKEN unset or empty, start-up stops with the ValueError:
\* no bot object, no load_extension call, no bot.start, no connection; with
\* a non-empty token, bot.start gets exactly that value.
C4_Credential ==
    /\ (environ \in {None, Some("")} /\ pc # "import") =>
          /\ pc = "raised"
          /\ ~bot_created
          /\ load_log = <<>>
          /\ start_arg = None
          /\ ~connect_attempted
    /\ (environ \notin {None, Some("")} /\ pc \notin {"import", "main"}) =>
          /\ pc # "raised"
          /\ bot_created
          /\ start_arg = environ
    /\ (load_log # <<>> \/ connect_attempted) => start_arg = environ /\ start_arg # None

\* C4's case: the token is the empty string and the import has raised.
C4_Witness == environ = Some("") /\ pc = "raised"

(***************************************************************************)
(* Presence rotation: on_ready, lines 88-103.                              *)
(***************************************************************************)
\* lines 89-93 (the Korean names are romanised: strings here are ASCII)
activities ==
    <<[type |-> "playing", name |-> "/doummal"],
      [type |-> "listening", name |-> "myeongnyeongeo"],
      [type |-> "playing", name |-> "mun-ui: example@mail.com"]>>

RotatePeriod == 300

\* the bot as it is once bot.start has connected, with nothing to load
BootRunning ==
    /\ environ = Some("tok")
    /\ DISCORD_TOKEN = Some("tok")
    /\ pc = "running"
    /\ bot_created = TRUE
    /\ start_arg = Some("tok")
    /\ connect_attempted = TRUE
    /\ listing = <<>>
    /\ fi = 1
    /\ _loaded_cogs = {}
    /\ failed_cogs = <<>>
    /\ load_log = <<>>
    /\ retry_pc = "none"
    /\ retry_i = 1
    /\ retry_started = 0
    /\ now = 0

PresenceInit == BootRunning /\ PresenceIdle /\ ErrorIdle /\ HelpIdle /\ CloseIdle

\* lines 95-96 and 103: every on_ready creates a task of its own, idx = 0
OnReady ==
    /\ pc = "running"
    /\ Len(tasks) < MaxReady
    /\ tasks' = Append(tasks, [idx |-> 0, at |-> "call", slept |-> 0])
    /\ UNCHANGED <<bootVars, loadVars, now, presence_log, errorVars, helpVars, closeVars>>

\* an increment that forgets the first activity after the last
NextIdxOffByOne(idx) == IF idx + 1 = Len(activities) THEN 1 ELSE idx + 1

\* line 100
NextIdx(idx) == (idx + 1) % Len(activities)

\* lines 98-101: one iteration of task t, up to the start of its sleep
RotateStep(t) ==
    /\ tasks[t].at = "call"
    /\ Len(presence_log) < MaxCalls
    /\ LET idx == tasks[t].idx
           activity == activities[idx + 1]
       IN  /\ presence_log' = Append(presence_log,
                  [task |-> t, status |-> "online", activity |-> activity,
                   time |-> now])
           /\ tasks' = [tasks EXCEPT ![t] =
                  [idx |-> NextIdx(idx), at |-> "sleep", slept |-> now]]
    /\ UNCHANGED <<bootVars, loadVars, now, errorVars, helpVars, closeVars>>

\* line 101: asyncio.sleep(300) returns, never early
RotateWake(t) ==
    /\ tasks[t].at = "sleep"
    /\ now >= tasks[t].slept + RotatePeriod
    /\ tasks' = [tasks EXCEPT ![t].at = "call"]
    /\ UNCHANGED <<bootVars, loadVars, now, presence_log, errorVars, helpVars, closeVars>>

\* half a rotation period passes
PresenceTick ==
    /\ now + RotatePeriod \div 2 <= MaxPeriods * RotatePeriod
    /\ now' = now + RotatePeriod \div 2
    /\ UNCHANGED <<bootVars, loadVars, presenceVars, errorVars, helpVars, closeVars>>

PresenceNext ==
    \/ OnReady
    \/ \E t \in 1..Len(tasks) : RotateStep(t)
    \/ \E t \in 1..Len(tasks) : RotateWake(t)
    \/ PresenceTick

PresenceSpec == PresenceInit /\ [][PresenceNext]_vars

(***************************************************************************)
(* Claims about the presence rotation.                                     *)
(***************************************************************************)
CallsOf(t) == SelectSeq(presence_log, LAMBDA c : c.task = t)

\* the order the claims speak of: call k shows activities[(k - 1) mod 3]
CyclicOrder(calls) ==
    \A k \in 1..Len(calls) : calls[k].activity = activities[((k - 1) % 3) + 1]

\* consecutive calls are at least one rotation period apart
PeriodApart(calls) ==
    \A k \in 2..Len(calls) : calls[k].time - calls[k - 1].time >= 300

C6_SingleLoop ==
    /\ Len(tasks) <= 1
    /\ CyclicOrder(presence_log)
    /\ PeriodApart(presence_log)

(***************************************************************************)
(* on_app_command_error, lines 132-161.                                    *)
(*                                                                         *)
(* An error is [cls, retry_after, original]: its class, retry_after in     *)
(* tenths of a second (CommandOnCooldown only) and the class of .original  *)
(* (CommandInvokeError only). The message texts are romanised.             *)
(***************************************************************************)
\* the exception classes the handler can meet, each with its base class
ErrorParent ==
    [AppCommandError |-> "Exception",
     CheckFailure |-> "AppCommandError",
     CommandOnCooldown |-> "CheckFailure",
     MissingPermissions |-> "CheckFailure",
     CommandInvokeError |-> "AppCommandError",
     TransformerError |-> "AppCommandError",
     CommandNotFound |-> "AppCommandError",
     HTTPException |-> "Exception",
     Forbidden |-> "HTTPException",
     TimeoutError |-> "Exception",
     ValueError |-> "Exception",
     Exception |-> "BaseException"]

RECURSIVE IsInstance(_, _)
IsInstance(cls, base) ==
    \/ cls = base
    \/ cls \in DOMAIN ErrorParent /\ IsInstance(ErrorParent[cls], base)

AppCommandErrors ==
    {[cls |-> "CommandOnCooldown", retry_after |-> r, original |-> "none"] :
        r \in 0..MaxRetryTenths}
    \cup {[cls |-> c, retry_after |-> 0, original |-> "none"] :
        c \in {"CheckFailure", "MissingPermissions", "TransformerError",
               "CommandNotFound", "AppCommandError"}}
    \cup {[cls |-> "CommandInvokeError", retry_after |-> 0, original |-> o] :
        o \in {"HTTPException", "Forbidden", "TimeoutError", "ValueError"}}

\* round(x) of a float x >= 0 given in tenths: to the nearest integer, a tie
\* to the even one
Round(tenths) ==
    LET q == tenths \div 10
        r == tenths % 10
    IN  IF r < 5 THEN q
        ELSE IF r > 5 THEN q + 1
        ELSE IF q % 2 = 0 THEN q ELSE q + 1

\* line 138
CooldownMessage(seconds) ==
    "myeongnyeongeo kuldaun: " \o ToString(seconds) \o "cho nameum"
\* line 143
PermissionMessage == "gwonhani eopgeona i chaeneoreseo sayonghal su eomneun myeongnyeongeoimnida."
\* line 150
ExecutionMessage == "myeongnyeongeo silhaeng jung oryuga balsaenghaetseumnida."
\* line 152
ApiMessage == "Discord API oryuga balsaenghaetseumnida."
\* line 154
TimeoutMessage == "yocheong sigani chogwadoeeotseumnida."

\* an isinstance chain that asks for CheckFailure first
BranchCheckFirst(error) ==
    IF IsInstance(error.cls, "CheckFailure") THEN "check"
    ELSE IF IsInstance(error.cls, "CommandOnCooldown") THEN "cooldown"
    ELSE IF IsInstance(error.cls, "CommandInvokeError") THEN "invoke"
    ELSE "none"

\* lines 135, 141, 146: the isinstance chain
Branch(error) ==
    IF IsInstance(error.cls, "CommandOnCooldown") THEN "cooldown"
    ELSE IF IsInstance(error.cls, "CheckFailure") THEN "check"
    ELSE IF IsInstance(error.cls, "CommandInvokeError") THEN "invoke"
    ELSE "none"

\* lines 150-154
InvokeMessage(original) ==
    IF IsInstance(original, "HTTPException") THEN ApiMessage
    ELSE IF IsInstance(original, "TimeoutError") THEN TimeoutMessage
    ELSE ExecutionMessage

\* interaction.response.send_message: InteractionResponded when the response
\* is done, an HTTPException when the request fails; calls names the method
\* that was called, sent what was delivered
ResponseSend(done, transport_ok, content, ephemeral) ==
    IF done \/ ~transport_ok
    THEN [calls |-> <<"response">>, sent |-> <<>>, raised |-> TRUE]
    ELSE [calls |-> <<"response">>,
          sent |-> <<[via |-> "response", content |-> content,
                      ephemeral |-> ephemeral]>>,
          raised |-> FALSE]

\* interaction.followup.send: an HTTPException when the request fails
FollowupSend(transport_ok, content, ephemeral) ==
    IF ~transport_ok
    THEN [calls |-> <<"followup">>, sent |-> <<>>, raised |-> TRUE]
    ELSE [calls |-> <<"followup">>,
          sent |-> <<[via |-> "followup", content |-> content,
                      ephemeral |-> ephemeral]>>,
          raised |-> FALSE]

\* lines 134-159: the body of the try
HandlerBody(error, done, transport_ok) ==
    LET branch == Branch(error)
    IN  IF branch = "cooldown"
        THEN ResponseSend(done, transport_ok,
                          CooldownMessage(Round(error.retry_after)), TRUE)
        ELSE IF branch = "check"
        THEN ResponseSend(done, transport_ok, PermissionMessage, TRUE)
        ELSE IF branch = "invoke"
        THEN IF ~done
             THEN ResponseSend(done, transport_ok,
                               InvokeMessage(error.original), TRUE)
             ELSE FollowupSend(transport_ok, InvokeMessage(error.original), TRUE)
        ELSE [calls |-> <<>>, sent |-> <<>>, raised |-> FALSE]

\* lines 132-161: one invocation of the handler, on an interaction whose
\* response is done or not and whose requests succeed or not
OnAppCommandError(error, done, transport_ok) ==
    /\ pc = "running"
    /\ LET body == HandlerBody(error, done, transport_ok)
       IN  err_call' = Some([error |-> error, done |-> done,
                             transport_ok |-> transport_ok,
                             calls |-> body.calls,
                             sent |-> body.sent,
                             handler_failed |-> body.raised,  \* line 161
                             propagated |-> FALSE])
    /\ UNCHANGED <<bootVars, loadVars, now, presenceVars, helpVars, closeVars>>

ErrorInit == BootRunning /\ PresenceIdle /\ ErrorIdle /\ HelpIdle /\ CloseIdle

ErrorNext ==
    \E error \in AppCommandErrors, done \in BOOLEAN, transport_ok \in BOOLEAN :
        OnAppCommandError(error, done, transport_ok)

ErrorSpec == ErrorInit /\ [][ErrorNext]_vars

(***************************************************************************)
(* Claims about on_app_command_error.                                      *)
(***************************************************************************)
\* n is x rounded: the nearest integer, the even one of two equally near
IsRounded(tenths, n) ==
    /\ 10 * n - tenths \in -5..5
    /\ (10 * n - tenths \in {-5, 5}) => n % 2 = 0

\* the message the claim gives each error
ClaimedMessages(error) ==
    IF error.cls = "CommandOnCooldown"
    THEN {CooldownMessage(n) : n \in {m \in 0..(MaxRetryTenths \div 10 + 1) :
                                         IsRounded(error.retry_after, m)}}
    ELSE IF error.cls \in {"CheckFailure", "MissingPermissions"}
    THEN {PermissionMessage}
    ELSE IF error.cls = "CommandInvokeError"
    THEN IF error.original \in {"HTTPException", "Forbidden"} THEN {ApiMessage}
         ELSE IF error.original = "TimeoutError" THEN {TimeoutMessage}
         ELSE {ExecutionMessage}
    ELSE {}

\* C7: the message is decided by the error's class: the cooldown message with
\* round(retry_after) for CommandOnCooldown (never the permission message),
\* the permission message for any other CheckFailure, and for
\* CommandInvokeError the API, timeout or generic message by its original;
\* whatever is sent is ephemeral; and on an interaction not yet responded to,
\* with a working connection, an error of these classes does get its message.
C7_Classification ==
    \A c \in err_call :
        /\ \A k \in 1..Len(c.sent) :
              /\ c.sent[k].ephemeral
              /\ c.sent[k].content \in ClaimedMessages(c.error)
        /\ (ClaimedMessages(c.error) # {} /\ ~c.done /\ c.transport_ok) =>
              Len(c.sent) = 1

\* C7's case: a cooldown of 2.5 s was answered with "2" (the tie goes to even).
C7_Witness ==
    \E c \in err_call :
        /\ c.error.cls = "CommandOnCooldown"
        /\ c.error.retry_after = 25
        /\ Len(c.sent) = 1
        /\ c.sent[1].content = CooldownMessage(2)

\* C8: every AppCommandError, of whatever subclass and whether or not the
\* interaction has been responded to, gets exactly one message: by
\* response.send_message when the response is not done, by followup.send when
\* it is. (Stated for requests that succeed.)
C8_AlwaysTranslated ==
    \A c \in err_call :
        c.transport_ok =>
            /\ Len(c.sent) = 1
            /\ c.sent[1].via = IF c.done THEN "followup" ELSE "response"

\* C14: the handler is itself safe. No exception leaves it (one raised while
\* sending is caught and logged), it sends at most one message per error, and
\* it never calls interaction.response.send_message on an interaction whose
\* response is already done.
C14_HandlerSafe ==
    \A c \in err_call :
        /\ ~c.propagated
        /\ (c.calls # <<>> /\ c.sent = <<>>) => c.handler_failed
        /\ Len(c.sent) <= 1
        /\ c.done => \A k \in 1..Len(c.calls) : c.calls[k] # "response"

\* what holds of every invocation: nothing propagates, a failed send is
\* logged, and at most one message is sent
HandlerNeverPropagates ==
    \A c \in err_call :
        /\ ~c.propagated
        /\ (c.calls # <<>> /\ c.sent = <<>>) => c.handler_failed
        /\ Len(c.sent) <= 1

(***************************************************************************)
(* help_command, lines 164-248.                                            *)
(*                                                                         *)
(* A command is [name, kind, description, commands, parameters]: kind is   *)
(* "Group" (with commands, and no parameters attribute) or "Command" (with *)
(* parameters). The texts are romanised, an emoji is written :name: and    *)
(* Markdown's backquote is written as an apostrophe.                       *)
(***************************************************************************)
UpperOf ==
    [a |-> "A", b |-> "B", c |-> "C", d |-> "D", e |-> "E", f |-> "F",
     g |-> "G", h |-> "H", i |-> "I", j |-> "J", k |-> "K", l |-> "L",
     m |-> "M", n |-> "N", o |-> "O", p |-> "P", q |-> "Q", r |-> "R",
     s |-> "S", t |-> "T", u |-> "U", v |-> "V", w |-> "W", x |-> "X",
     y |-> "Y", z |-> "Z"]

LowerChar(ch) ==
    IF \E c \in DOMAIN UpperOf : UpperOf[c] = ch
    THEN CHOOSE c \in DOMAIN UpperOf : UpperOf[c] = ch
    ELSE ch

UpperChar(ch) == IF ch \in DOMAIN UpperOf THEN UpperOf[ch] ELSE ch

\* str.lower
RECURSIVE Lower(_)
Lower(str) ==
    IF Len(str) = 0 THEN ""
    ELSE LowerChar(SubSeq(str, 1, 1)) \o Lower(SubSeq(str, 2, Len(str)))

\* str.capitalize
Capitalize(str) ==
    IF Len(str) = 0 THEN ""
    ELSE UpperChar(SubSeq(str, 1, 1)) \o Lower(SubSeq(str, 2, Len(str)))

\* sep.join(strs)
RECURSIVE Join(_, _)
Join(strs, sep) ==
    IF Len(strs) = 0 THEN ""
    ELSE IF Len(strs) = 1 THEN strs[1]
    ELSE strs[1] \o sep \o Join(Tail(strs), sep)

Command(name, description, parameters) ==
    [name |-> name, kind |-> "Command", description |-> description,
     commands |-> <<>>, parameters |-> parameters]

Group(name, description, commands) ==
    [name |-> name, kind |-> "Group", description |-> description,
     commands |-> commands, parameters |-> <<>>]

\* lines 164-171: the help command itself, as registered on the tree
HelpCommandEntry ==
    Command("doummal", "gineung geurup mongnok ttoneun sangse doummal",
            <<[name |-> "category", required |-> FALSE]>>)

\* what a group can hold: commands with and without parameters, and a subgroup
ChildCommands ==
    {Command("play", "play a song",
             <<[name |-> "query", required |-> TRUE],
               [name |-> "volume", required |-> FALSE]>>),
     Command("stop", "stop playing", <<>>),
     Group("queue", "queue commands",
           <<Command("clear", "clear the queue", <<>>)>>)}

TopCommands ==
    {HelpCommandEntry, Command("ping", "latency", <<>>),
     Group("admin", "administration",
           <<Command("ban", "ban a member",
                     <<[name |-> "member", required |-> TRUE]>>)>>)}
    \cup {Group("music", "music player", children) :
             children \in SeqsNoDup(ChildCommands, MaxChildren)}

\* the registered top-level commands, in registration order, names unique
Trees ==
    {cmds \in SeqsNoDup(TopCommands, MaxCommands) :
        \A j, k \in 1..Len(cmds) : j # k => cmds[j].name # cmds[k].name}

\* what a user can pass as category
Categories ==
    {None, Some(""), Some("music"), Some("Music"), Some("ADMIN"), Some("ping"),
     Some("nope")}

\* isinstance(command, app_commands.Group)
IsGroup(command) == command.kind = "Group"

\* bot.tree.get_command(name): the command of that name, or None
GetCommand(cmds, name) == {c \in Range(cmds) : c.name = name}

\* lines 186-190
GroupField(command) ==
    [name |-> ":paperclip: " \o Capitalize(command.name),
     value |-> "'/doummal " \o command.name \o "'euro jasehi bogi",
     inline |-> FALSE]

\* line 198
SpecialLine(cmd) == "/" \o cmd.name \o " - " \o cmd.description

\* a filter that lets every command through
StandaloneEverything(cmds) == cmds

\* lines 193-195
StandaloneCommands(cmds) == SelectSeq(cmds, LAMBDA c : ~IsGroup(c))

\* lines 177-204
OverviewEmbed(cmds) ==
    LET groups == SelectSeq(cmds, IsGroup)
        group_fields == [k \in 1..Len(groups) |-> GroupField(groups[k])]
        standalone_commands == StandaloneCommands(cmds)
        special_commands ==
            Join([k \in 1..Len(standalone_commands) |->
                     SpecialLine(standalone_commands[k])], "\n")
    IN  [title |-> ":mag: doummal: gineung mit myeongnyeongeo mongnok",
         fields |->
            IF standalone_commands # <<>>
            THEN Append(group_fields,
                        [name |-> "--teuksu myeongnyeongeo--",
                         value |-> special_commands, inline |-> FALSE])
            ELSE group_fields,
         footer |-> None]

\* line 230
ParamDesc(param) ==
    IF param.required THEN "[" \o param.name \o "]"
    ELSE "(" \o param.name \o ")"

\* lines 227-238: the field of one subcommand
SubcommandField(group, subcommand) ==
    LET name == "/" \o group.name \o " " \o subcommand.name
        params == [k \in 1..Len(subcommand.parameters) |->
                      ParamDesc(subcommand.parameters[k])]
        usage == name \o " " \o Join(params, " ")
        value == ":bulb: " \o subcommand.description
    IN  [name |-> usage,
         value |-> IF params # <<>>
                   THEN value \o "\n'''sayongbeop: " \o usage \o "'''"
                   ELSE value,
         inline |-> FALSE]

\* line 229: subcommand.parameters exists on a Command only; on a Group the
\* attribute access raises AttributeError
DetailRaises(group) == \E k \in 1..Len(group.commands) : IsGroup(group.commands[k])

\* lines 220-240
DetailEmbed(category, group) ==
    [title |-> ":books: " \o Capitalize(category) \o " kategori doummal",
     fields |-> [k \in 1..Len(group.commands) |->
                    SubcommandField(group, group.commands[k])],
     footer |-> Some("[] = pilsu hangmok, () = seontaek hangmok")]

\* line 215
NotFoundMessage(category) ==
    ":x: '" \o category \o "' kategorireul chajeul su eopseumnida."

\* line 246
HelpFailedMessage == "doummareul bulleooneun jung oryuga balsaenghaetseumnida."

NoEmbed == [title |-> "", fields |-> <<>>, footer |-> None]

\* interaction.followup.send: an HTTPException when the request fails
HelpSend(kind, content, embed, ephemeral, send_ok) ==
    IF send_ok
    THEN [followups |-> <<[kind |-> kind, content |-> content, embed |-> embed,
                           ephemeral |-> ephemeral]>>,
          raised |-> FALSE]
    ELSE [followups |-> <<>>, raised |-> TRUE]

\* lines 173-241: the body of the try
HelpBody(cmds, category, defer_ok, send_ok) ==
    IF ~defer_ok THEN [followups |-> <<>>, raised |-> TRUE]
    ELSE IF ~Truthy(category)
    THEN HelpSend("embed", "", OverviewEmbed(cmds), FALSE, send_ok)
    ELSE LET lowered == Lower(CHOOSE c \in category : TRUE)
             group == GetCommand(cmds, lowered)
         IN  IF group = None \/ \E g \in group : ~IsGroup(g)
             THEN HelpSend("text", NotFoundMessage(lowered), NoEmbed, TRUE, send_ok)
             ELSE LET g == CHOOSE g \in group : TRUE
                  IN  IF DetailRaises(g)
                      THEN [followups |-> <<>>, raised |-> TRUE]
                      ELSE HelpSend("embed", "", DetailEmbed(lowered, g), FALSE,
                                    send_ok)

\* lines 171-248: one invocation; the except clause sends the generic message,
\* and an exception of that send leaves the handler
HelpCommand(category, defer_ok, send_ok, fallback_ok) ==
    /\ pc = "running"
    /\ help_call = None
    /\ LET body == HelpBody(tree, category, defer_ok, send_ok)
           fallback == HelpSend("text", HelpFailedMessage, NoEmbed, TRUE,
                                fallback_ok)
       IN  help_call' = Some(
              [category |-> category,
               deferred |-> defer_ok,
               requests_ok |-> defer_ok /\ send_ok /\ fallback_ok,
               raised |-> body.raised,
               followups |-> IF body.raised
                             THEN body.followups \o fallback.followups
                             ELSE body.followups,
               propagated |-> body.raised /\ fallback.raised])
    /\ UNCHANGED <<bootVars, loadVars, now, presenceVars, errorVars, tree, closeVars>>

HelpInit ==
    /\ BootRunning /\ PresenceIdle /\ ErrorIdle /\ CloseIdle
    /\ tree \in Trees
    /\ help_call = None

\* the invocation is over; the next one can begin
HelpReturn ==
    /\ help_call # None
    /\ help_call' = None
    /\ UNCHANGED <<bootVars, loadVars, now, presenceVars, errorVars, tree, closeVars>>

HelpNext ==
    \/ \E category \in Categories, defer_ok, send_ok, fallback_ok \in BOOLEAN :
          HelpCommand(category, defer_ok, send_ok, fallback_ok)
    \/ HelpReturn

HelpSpec == HelpInit /\ [][HelpNext]_vars

(***************************************************************************)
(* Claims about help_command.                                              *)
(***************************************************************************)
Groups == SelectSeq(tree, LAMBDA c : c.kind = "Group")
NonGroups == SelectSeq(tree, LAMBDA c : c.kind # "Group")

\* the lines '/<name> - <description>' of cmds, one per command, in order
RECURSIVE LinesOf(_)
LinesOf(cmds) ==
    IF Len(cmds) = 0 THEN ""
    ELSE LET last == cmds[Len(cmds)]
             line == "/" \o last.name \o " - " \o last.description
         IN  IF Len(cmds) = 1 THEN line
             ELSE LinesOf(SubSeq(cmds, 1, Len(cmds) - 1)) \o "\n" \o line

\* C9: the overview (no category, or an empty one) lists every top-level
\* command exactly once: a field per Group, in tree order, whose value is the
\* hint '/doummal <group name>', then one special-commands field holding one
\* line '/<name> - <description>' per non-Group command; that field is left
\* out exactly when there is no non-Group command.
C9_Overview ==
    \A c \in help_call :
        (c.category \in {None, Some("")} /\ c.requests_ok) =>
            /\ Len(c.followups) = 1
            /\ c.followups[1].kind = "embed"
            /\ LET fields == c.followups[1].embed.fields
               IN  /\ Len(fields) = Len(Groups) + IF NonGroups = <<>> THEN 0 ELSE 1
                   /\ \A k \in 1..Len(Groups) :
                         fields[k].value =
                            "'/doummal " \o Groups[k].name \o "'euro jasehi bogi"
                   /\ NonGroups # <<>> =>
                         /\ fields[Len(fields)].name = "--teuksu myeongnyeongeo--"
                         /\ fields[Len(fields)].value = LinesOf(NonGroups)

\* C9's case: an overview of a tree that holds a group and a plain command.
C9_Witness ==
    \E c \in help_call :
        /\ c.category = None /\ c.requests_ok
        /\ Groups # <<>> /\ NonGroups # <<>>
        /\ Len(c.followups) = 1
        /\ Len(c.followups[1].embed.fields) = 2

\* the usage string of the claim: '/<group> <subcommand>', then the parameters
\* in declared order, '[name]' when required and '(name)' when optional
RECURSIVE ParamsOf(_)
ParamsOf(parameters) ==
    IF Len(parameters) = 0 THEN ""
    ELSE LET p == parameters[Len(parameters)]
             shown == IF p.required THEN "[" \o p.name \o "]"
                      ELSE "(" \o p.name \o ")"
         IN  IF Len(parameters) = 1 THEN shown
             ELSE ParamsOf(SubSeq(parameters, 1, Len(parameters) - 1))
                     \o " " \o shown

UsageOf(group, child) ==
    "/" \o group.name \o " " \o child.name \o " " \o ParamsOf(child.parameters)

\* the reply the claim gives a detail request for group g
IsDetailOf(c, g) ==
    /\ Len(c.followups) = 1
    /\ c.followups[1].kind = "embed"
    /\ LET embed == c.followups[1].embed
       IN  /\ Len(embed.fields) = Len(g.commands)
           /\ \A k \in 1..Len(g.commands) :
                 LET child == g.commands[k]
                     plain == ":bulb: " \o child.description
                 IN  /\ embed.fields[k].name = UsageOf(g, child)
                     /\ embed.fields[k].value =
                           IF Len(child.parameters) > 0
                           THEN plain \o "\n'''sayongbeop: "
                                   \o UsageOf(g, child) \o "'''"
                           ELSE plain
           /\ embed.footer = Some("[] = pilsu hangmok, () = seontaek hangmok")

\* the call asks, with requests that succeed, for the detail of group g
AsksDetailOf(c, g) ==
    /\ c.category \notin {None, Some("")}
    /\ c.requests_ok
    /\ g.name = Lower(CHOOSE v \in c.category : TRUE)

\* C10: when the lower-cased category names a registered Group, the reply is
\* one embed with one field per direct child of the group, in the group's
\* order, named by the child's usage string; the usage code block is in the
\* field's value exactly when the child has a parameter; and the footer
\* explains the brackets.
C10_Detail ==
    \A c \in help_call :
        \A g \in Range(Groups) : AsksDetailOf(c, g) => IsDetailOf(c, g)

\* the same for the groups that hold commands only
DetailOfFlatGroups ==
    \A c \in help_call :
        \A g \in Range(Groups) :
            (AsksDetailOf(c, g) /\ \A k \in 1..Len(g.commands) :
                                      g.commands[k].kind = "Command")
                => IsDetailOf(c, g)

\* the call passes, with requests that succeed, a non-empty category
AsksCategory(c) == c.category \notin {None, Some("")} /\ c.requests_ok

\* the reply is the ephemeral 'category not found' text and nothing else
IsNotFoundReply(c) ==
    /\ Len(c.followups) = 1
    /\ c.followups[1].kind = "text"
    /\ c.followups[1].ephemeral
    /\ c.followups[1].content =
          NotFoundMessage(Lower(CHOOSE v \in c.category : TRUE))

\* the lower-cased category names no command, or a command that is no Group
NamesNoGroup(c) ==
    \A cmd \in Range(tree) :
        cmd.name = Lower(CHOOSE v \in c.category : TRUE) => cmd.kind # "Group"

\* C11: overview and detail agree. Passing a group name exactly as the
\* overview's hint shows it reaches that group's detail embed, never the
\* 'category not found' reply; and a category that, lower-cased, names no
\* command or a command that is no Group gets the ephemeral 'category not
\* found' reply only.
C11_OverviewDetailAgree ==
    \A c \in help_call :
        AsksCategory(c) =>
            /\ \A g \in Range(Groups) :
                  c.category = Some(g.name) => IsDetailOf(c, g) /\ ~IsNotFoundReply(c)
            /\ NamesNoGroup(c) => IsNotFoundReply(c)

\* what holds of every group: an advertised name is never answered 'category
\* not found', and the other categories always are
AdvertisedNameIsFound ==
    \A c \in help_call :
        AsksCategory(c) =>
            /\ \A g \in Range(Groups) :
                  c.category = Some(g.name) =>
                      /\ ~IsNotFoundReply(c)
                      /\ ~DetailRaises(g) => IsDetailOf(c, g)
            /\ NamesNoGroup(c) => IsNotFoundReply(c)

\* the reply is the generic 'could not load help' text
IsHelpFailedReply(message) ==
    message.kind = "text" /\ message.content = HelpFailedMessage

\* one followup; the generic text exactly when a step raised, and then no embed
OneReply(c) ==
    /\ Len(c.followups) = 1
    /\ IsHelpFailedReply(c.followups[1]) <=> c.raised
    /\ c.raised => \A k \in 1..Len(c.followups) : c.followups[k].kind # "embed"
    /\ ~c.propagated

\* C15: one reply per help invocation. Every invocation sends exactly one
\* followup message, on every path; the generic 'could not load help' text is
\* that message exactly when a step inside the handler raised, no embed is
\* delivered then, and no exception leaves the handler.
C15_OneReply == \A c \in help_call : OneReply(c)

\* what holds of every invocation: one reply whenever the send of the except
\* clause does not itself raise, and never more than one followup
OneReplyUnlessFallbackFails ==
    \A c \in help_call :
        /\ Len(c.followups) <= 1
        /\ c.propagated <=> (c.raised /\ c.followups = <<>>)
        /\ ~c.propagated => OneReply(c)

(***************************************************************************)
(* MyBot.close, lines 105-121, beside retry_failed_cogs.                   *)
(*                                                                         *)
(* close() awaits session.close(), each unload_extension and the parent's  *)
(* close(); the retry task, which close() does not cancel, can run at each *)
(* of these awaits. The exploration starts where setup_hook has returned.  *)
(***************************************************************************)
\* lines 63-72 as a whole: what setup_hook leaves when the loads of the
\* extensions in oks return and the other loads raise
SetupLog(files, oks) ==
    LET eligible == SelectSeq(files, Eligible)
    IN  [k \in 1..Len(eligible) |->
            [extension |-> ExtensionOf(eligible[k]), by |-> "setup",
             ok |-> ExtensionOf(eligible[k]) \in oks, already |-> FALSE]]

SetupFailed(files, oks) ==
    LET failed == SelectSeq(SetupLog(files, oks), LAMBDA call : ~call.ok)
    IN  [k \in 1..Len(failed) |-> <<failed[k].extension, "str(e)">>]

\* the bot once bot.start has connected; a cog may have opened bot.session
ShutdownInit ==
    /\ environ = Some("tok")
    /\ DISCORD_TOKEN = Some("tok")
    /\ pc = "running"
    /\ bot_created = TRUE
    /\ start_arg = Some("tok")
    /\ connect_attempted = TRUE
    /\ listing \in SeqsNoDup(FileNames, MaxFiles)
    /\ fi = Len(listing) + 1
    /\ \E oks \in SUBSET {ExtensionOf(f) : f \in {g \in Range(listing) : Eligible(g)}} :
          /\ _loaded_cogs = oks
          /\ load_log = SetupLog(listing, oks)
          /\ failed_cogs = SetupFailed(listing, oks)
    /\ retry_pc = IF RetryWanted(failed_cogs) THEN "sleep" ELSE "none"
    /\ retry_i = 1
    /\ retry_started = 0
    /\ now = 0
    /\ PresenceIdle /\ ErrorIdle /\ HelpIdle
    /\ session \in {"none", "open", "closed"}
    /\ close_pc = "idle"
    /\ unload_list = {}
    /\ close_log = <<>>
    /\ loads_before_unload = None

CloseCall(op, extension, ok) == [op |-> op, extension |-> extension, ok |-> ok]

\* line 113: list(self._loaded_cogs), taken when the for loop begins
BeginUnloadPass ==
    /\ unload_list' = _loaded_cogs
    /\ loads_before_unload' = Some(Len(load_log))
    /\ close_pc' = "unload"

\* line 109: is there a session to close?
SessionToClose == session = "open"

\* lines 107-113: close() is called and runs to its first await
CloseStart ==
    /\ pc = "running"
    /\ close_pc = "idle"
    /\ IF SessionToClose
       THEN /\ close_pc' = "session"
            /\ UNCHANGED <<unload_list, loads_before_unload>>
       ELSE BeginUnloadPass
    /\ UNCHANGED <<bootVars, loadVars, now, presenceVars, errorVars, helpVars,
                   session, close_log>>

\* line 110: session.close() returns, or raises into the except of line 120,
\* which logs and ends close()
CloseSession ==
    /\ close_pc = "session"
    /\ \E ok \in BOOLEAN :
          /\ close_log' = Append(close_log, CloseCall("session.close", "", ok))
          /\ IF ok
             THEN session' = "closed" /\ BeginUnloadPass
             ELSE /\ close_pc' = "done"
                  /\ UNCHANGED <<session, unload_list, loads_before_unload>>
    /\ UNCHANGED <<bootVars, loadVars, now, presenceVars, errorVars, helpVars>>

Unloaded == {close_log[k].extension :
                k \in {j \in 1..Len(close_log) : close_log[j].op = "unload_extension"}}

\* lines 113-117: one iteration of the unload loop (the list's order is that
\* of a set: any); a raising unload is logged and the loop goes on
CloseUnload ==
    /\ close_pc = "unload"
    /\ \E extension \in unload_list \ Unloaded, ok \in BOOLEAN :
          close_log' = Append(close_log, CloseCall("unload_extension", extension, ok))
    /\ UNCHANGED <<bootVars, loadVars, now, presenceVars, errorVars, helpVars,
                   session, close_pc, unload_list, loads_before_unload>>

\* lines 119-121: super().close(); if it raises, line 121 logs
CloseParent ==
    /\ close_pc = "unload"
    /\ unload_list \subseteq Unloaded
    /\ \E ok \in BOOLEAN :
          close_log' = Append(close_log, CloseCall("super.close", "", ok))
    /\ close_pc' = "done"
    /\ UNCHANGED <<bootVars, loadVars, now, presenceVars, errorVars, helpVars,
                   session, unload_list, loads_before_unload>>

\* once close() has returned the program ends, and its tasks with it
ShutdownNext ==
    \/ CloseStart
    \/ CloseSession
    \/ CloseUnload
    \/ CloseParent
    \/ (close_pc # "done" /\ RetryWake)
    \/ (close_pc # "done" /\ RetryStep)
    \/ (close_pc # "done" /\ RetryFinish)
    \/ (close_pc # "done" /\ Tick)

ShutdownSpec == ShutdownInit /\ [][ShutdownNext]_vars

(***************************************************************************)
(* Claims about close().                                                   *)
(***************************************************************************)
CloseCalls(op) == {k \in 1..Len(close_log) : close_log[k].op = op}

UnloadCalls(extension) ==
    {k \in CloseCalls("unload_extension") : close_log[k].extension = extension}

UnloadPassBegun == loads_before_unload # None

\* what close() does when it gets as far as the unload pass: the session is
\* closed first when there was an open one, every extension of the list is
\* unloaded once whatever the unloads raise, and the parent's close follows
OrderlyClose ==
    /\ Cardinality(CloseCalls("session.close")) <= 1
    /\ \A k \in CloseCalls("session.close") : k = 1
    /\ \A k \in CloseCalls("unload_extension") :
          /\ close_log[k].extension \in unload_list
          /\ Cardinality(UnloadCalls(close_log[k].extension)) = 1
    /\ \A k \in CloseCalls("super.close") :
          /\ k = Len(close_log)
          /\ unload_list \subseteq Unloaded
    /\ (close_pc = "done" /\ UnloadPassBegun) =>
          Cardinality(CloseCalls("super.close")) = 1

\* C12: graceful shutdown. close() closes an open session, then attempts
\* unload_extension once for every extension that is in _loaded_cogs when
\* the unload pass starts, whatever the unloads raise, and then calls the
\* parent's close(); the parent's close is reached on every execution of
\* close(), also when the session close or an unload raises.
C12_GracefulShutdown ==
    /\ OrderlyClose
    /\ close_pc = "done" => Cardinality(CloseCalls("super.close")) = 1

\* C13: shutdown beside the retry task. However close() and
\* retry_failed_cogs interleave, no load_extension call is made once close()
\* has begun its unload pass, and when close() has completed that pass every
\* extension that was ever loaded has had its unload attempted.
C13_ShutdownVersusRetry ==
    UnloadPassBegun =>
        /\ loads_before_unload = Some(Len(load_log))
        /\ close_pc = "done" => _loaded_cogs \subseteq Unloaded

====
